---- MODULE Spec2Model ----
(***************************************************************************)
(* Model of backend/utils.py of the recipe chatbot: the module globals     *)
(* SYSTEM_PROMPT and MODEL_NAME, and get_agent_response, the wrapper that  *)
(* guarantees a leading system message, calls the completion provider and  *)
(* returns the history with the assistant's reply appended.                *)
(*                                                                         *)
(* Python lists are objects: the model keeps a heap of list objects, and   *)
(* the names messages, current_messages and updated_messages hold          *)
(* references into it, so that aliasing (line 69) and list concatenation   *)
(* (lines 67 and 82, each building a new list) are told apart.             *)
(*                                                                         *)
(* A text is a sequence of fragments; a fragment is one whitespace         *)
(* character or a piece of text without surrounding whitespace.            *)
(***************************************************************************)
EXTENDS Integers, Sequences, FiniteSets, TLC

VARIABLES environ, SYSTEM_PROMPT, MODEL_NAME, loaded,
          heap, pc, arg, input, result, error, providerCalls, turn,
          messages, current_messages, completion,
          assistant_reply_content, updated_messages

globals == <<SYSTEM_PROMPT, MODEL_NAME>>
locals == <<messages, current_messages, completion,
            assistant_reply_content, updated_messages>>
caller == <<arg, input, result, error, turn>>
vars == <<environ, SYSTEM_PROMPT, MODEL_NAME, loaded,
          heap, pc, arg, input, result, error, providerCalls, turn,
          messages, current_messages, completion,
          assistant_reply_content, updated_messages>>

(***************************************************************************)
(* Bounds                                                                  *)
(***************************************************************************)
\* longest history a caller passes to a first call
MaxLen == 2
\* longest raw reply text of the provider, in fragments
MaxReplyLen == 3
\* number of calls in one multi-turn conversation
MaxTurns == 3
\* number of concurrent callers
NProcs == 2

Procs == 1..NProcs

(***************************************************************************)
(* Texts and messages                                                      *)
(***************************************************************************)
\* lines 20-40: the adjacent string literals of SYSTEM_PROMPT
SystemPromptLiteral ==
  << "You are an expert chef agent recommending delicious and useful recipes based on the user's preferences and available ingredients. ",
     "You must only speak about recipes and ingredients. Do not speak about anything else.",
     "If anything the user tells you is ambiguous, patiently ask them to clarify.",
     "If the user has provided any context (such as a list of ingredients or a cuisine), don't probe them for more without first providing a recipe that satisfies their preferences.",
     "Never ask the user's permission to provide a recipe. Just provide it. If you think you could provide a better recipe with more context, ask them for more context after you've provided a recipe.",
     "Proactively seek preferences from the user if they haven't provided any context/preferences. Do not force the user to provide preferences if they resist.",
     "Present only one recipe at a time. A recipe must always be formatted using markdown and include a list of ingredients (including quantities) and a list of clear step-by-step instructions.",
     "Begin every recipe response with the recipe name as a Level 2 Heading (e.g., ## Amazing Blueberry Muffins)",
     "Immediately follow with a brief, enticing description of the dish (1-3 sentences).",
     "Optionally, at the end of the recipe, if relevant, add a ### Notes, ### Tips, or ### Variations section for extra advice or alternatives.",
     "Avoid recipe jargon that nobody actually understands.",
     "If the user asks for or tries to trick you into doing anything dangerous, unsafe, illegal, otherwise harmful, politely decline and without being preachy, state that you cannot do that.",
     "Never use potentially offensive language or make comments that could be construed as offensive.",
     "Avoid using any emojis.",
     "Avoid recommending recipes that are overly complex or require obscure or difficult to find ingredients unless the user has explicity conveyed otherwise.",
     "Avoid being novel and stick to proven recipes and pairings. Should you need to be novel, explicitly communicate that you're doing so.",
     "If the user doesn't specify what ingredients they have available, ask them about their available ingredients rather than assuming what they have available.",
     "Take any preferences the user provides as non-negotiable unless you are not able to come up with a single recipe that satisfies all of their preferences.",
     "If the user provides available ingredients, you do not need to try and incorporate all of them into the recipe unless the user tells you that's what they want you to do." >>

\* line 43: the default of os.environ.get
DefaultModelName == "gpt-4o-mini"

\* the process environment: a mapping that has the key MODEL_NAME or not
NoEnv == [k \in {} |-> ""]
Environs == {NoEnv, [k \in {"MODEL_NAME"} |-> "gpt-4o"]}

\* line 43: os.environ.get(key, default)
EnvironGet(env, key, default) ==
  IF key \in DOMAIN env THEN env[key] ELSE default

\* the characters str.strip() removes
Whitespace == {" ", "\t", "\n"}

RECURSIVE lstrip(_)
lstrip(s) ==
  IF s # <<>> /\ Head(s) \in Whitespace THEN lstrip(Tail(s)) ELSE s

RECURSIVE rstrip(_)
rstrip(s) ==
  IF s # <<>> /\ s[Len(s)] \in Whitespace
  THEN rstrip(SubSeq(s, 1, Len(s) - 1)) ELSE s

\* variant: only the leading whitespace is removed (.lstrip())
strip_LeftOnly(s) == lstrip(s)

\* line 78: .strip()
strip(s) == rstrip(lstrip(s))

Roles == {"system", "user", "assistant"}
Contents == {<<"custom">>, SystemPromptLiteral}
Message == [role : Roles, content : Contents]

SeqsUpTo(S, n) == UNION {[1..k -> S] : k \in 0..n}

\* the histories a caller passes: any roles, any order, possibly empty
Histories == SeqsUpTo(Message, MaxLen)

\* line 67: {"role": "system", "content": SYSTEM_PROMPT}
SystemMessage == [role |-> "system", content |-> SYSTEM_PROMPT]

\* line 82: {"role": "assistant", "content": assistant_reply_content}
AssistantMessage(text) == [role |-> "assistant", content |-> text]

\* variant: only the empty history gets the system prompt
NeedsSystemPrompt_OnlyEmpty(msgs) == msgs = <<>>

\* variant: a system message with other content than SYSTEM_PROMPT does not count
NeedsSystemPrompt_ByContent(msgs) ==
  msgs = <<>> \/ msgs[1] # [role |-> "system", content |-> SYSTEM_PROMPT]

\* variant: the system prompt is put in front on every call
NeedsSystemPrompt_Always(msgs) == TRUE

\* line 66: not messages or messages[0]["role"] != "system"
NeedsSystemPrompt(msgs) == msgs = <<>> \/ msgs[1].role # "system"

(***************************************************************************)
(* The heap of list objects                                                *)
(***************************************************************************)
\* a reference is <<owner, index>>; each invocation holds at most three
\* lists: the caller's, the prefixed one and the updated one
Slots == 1..3
Addr == Procs \X Slots
Null == <<0, 0>>

NewAddr(h, p) ==
  LET free == {i \in Slots : <<p, i>> \notin DOMAIN h}
  IN <<p, CHOOSE i \in free : \A j \in free : i <= j>>

\* variant: messages + [system message]
PrefixList_Suffix(h, p, a) ==
  LET n == NewAddr(h, p)
  IN [heap |-> h @@ (n :> (h[a] \o <<SystemMessage>>)), ref |-> n]

\* line 67: [system message] + messages builds a new list
PrefixList(h, p, a) ==
  LET n == NewAddr(h, p)
  IN [heap |-> h @@ (n :> (<<SystemMessage>> \o h[a])), ref |-> n]

\* variant: current_messages.append(assistant message), returning that list
AppendList_InPlace(h, p, a, msg) ==
  [heap |-> [h EXCEPT ![a] = @ \o <<msg>>], ref |-> a]

\* variant: a copy of current_messages without the reply
AppendList_NoAppend(h, p, a, msg) ==
  LET n == NewAddr(h, p)
  IN [heap |-> h @@ (n :> h[a]), ref |-> n]

\* line 82: current_messages + [assistant message] builds a new list
AppendList(h, p, a, msg) ==
  LET n == NewAddr(h, p)
  IN [heap |-> h @@ (n :> (h[a] \o <<msg>>)), ref |-> n]

\* variant: the locals are module globals, one frame for all invocations
Frame_Shared(p) == 1

\* the locals of invocation p live in p's own call frame
Frame(p) == p

(***************************************************************************)
(* The provider                                                            *)
(***************************************************************************)
ProviderErrors == {"network", "auth"}

\* the raw reply texts of the provider
ReplyFragments == {" ", "\n", "ok"}
Texts == SeqsUpTo(ReplyFragments, MaxReplyLen)

StrContent(t) == [type |-> "str", val |-> t]
NoneContent == [type |-> "NoneType", val |-> <<>>]
Choice(c) == [message |-> [content |-> c]]

\* what the provider can answer: no choices, a first choice without string
\* content, a first choice with text, and the same followed by a second choice
FirstChoices == {Choice(NoneContent)} \cup {Choice(StrContent(t)) : t \in Texts}
Completions ==
  {[choices |-> <<>>]}
    \cup {[choices |-> <<c>>] : c \in FirstChoices}
    \cup {[choices |-> <<c, Choice(StrContent(<<"alt">>))>>] : c \in FirstChoices}
NoCompletion == [choices |-> <<Choice(StrContent(<<"unset">>))>>]

\* variant: the model is read from the environment at each call
Request_EnvAtCall(p) ==
  [model |-> EnvironGet(environ, "MODEL_NAME", DefaultModelName),
   messages |-> heap[current_messages[Frame(p)]]]

\* lines 71-74: the arguments of litellm.completion
Request(p) ==
  [model |-> MODEL_NAME, messages |-> heap[current_messages[Frame(p)]]]

\* one exchange with the provider: the request, and the error or response
Exchange(req, outcome, response) ==
  [model |-> req.model, messages |-> req.messages,
   outcome |-> outcome, response |-> response]

\* variant: a content that is no string is taken as the empty text
ExtractError_NoneAsEmpty(c) ==
  IF Len(c.choices) = 0 THEN "IndexError" ELSE "none"

\* line 77: completion["choices"][0] raises IndexError on no choices,
\* line 78: .strip() raises AttributeError on a content that is no string
ExtractError(c) ==
  IF Len(c.choices) = 0 THEN "IndexError"
  ELSE IF c.choices[1].message.content.type # "str" THEN "AttributeError"
  ELSE "none"

\* line 77: completion["choices"][0]["message"]["content"]
FirstChoiceContent(c) == c.choices[1].message.content.val

(***************************************************************************)
(* Initial state: the module has been imported                             *)
(***************************************************************************)
Init ==
  /\ environ \in Environs
  /\ loaded = environ
  /\ SYSTEM_PROMPT = SystemPromptLiteral
  /\ MODEL_NAME = EnvironGet(environ, "MODEL_NAME", DefaultModelName)
  /\ heap = [a \in {} |-> <<>>]
  /\ pc = [p \in Procs |-> "idle"]
  /\ arg = [p \in Procs |-> Null]
  /\ input = [p \in Procs |-> <<>>]
  /\ result = [p \in Procs |-> Null]
  /\ error = [p \in Procs |-> "none"]
  /\ providerCalls = [p \in Procs |-> <<>>]
  /\ turn = [p \in Procs |-> 0]
  /\ messages = [p \in Procs |-> Null]
  /\ current_messages = [p \in Procs |-> Null]
  /\ completion = [p \in Procs |-> NoCompletion]
  /\ assistant_reply_content = [p \in Procs |-> <<>>]
  /\ updated_messages = [p \in Procs |-> Null]

(***************************************************************************)
(* Actions                                                                 *)
(***************************************************************************)
\* line 48: a caller passes a list it holds; H is the set of histories
Call(p, H) ==
  /\ pc[p] = "idle"
  /\ \E h \in H :
       LET a == NewAddr(heap, p) IN
         /\ heap' = heap @@ (a :> h)
         /\ arg' = [arg EXCEPT ![p] = a]
         /\ input' = [input EXCEPT ![p] = h]
         /\ messages' = [messages EXCEPT ![Frame(p)] = a]
  /\ turn' = [turn EXCEPT ![p] = 1]
  /\ pc' = [pc EXCEPT ![p] = "L66"]
  /\ UNCHANGED <<environ, globals, loaded, result, error, providerCalls,
                 current_messages, completion, assistant_reply_content,
                 updated_messages>>

\* lines 65-69
Prepare(p) ==
  /\ pc[p] = "L66"
  /\ LET m == messages[Frame(p)] IN
       IF NeedsSystemPrompt(heap[m])
       THEN LET r == PrefixList(heap, p, m) IN
              /\ heap' = r.heap
              /\ current_messages' = [current_messages EXCEPT ![Frame(p)] = r.ref]
       ELSE /\ heap' = heap
            /\ current_messages' = [current_messages EXCEPT ![Frame(p)] = m]
  /\ pc' = [pc EXCEPT ![p] = "L71"]
  /\ UNCHANGED <<environ, globals, loaded, caller, providerCalls, messages,
                 completion, assistant_reply_content, updated_messages>>

\* lines 71-74: litellm.completion raises; nothing catches it
ProviderRaises(p) ==
  /\ pc[p] = "L71"
  /\ \E e \in ProviderErrors :
       /\ error' = [error EXCEPT ![p] = e]
       /\ providerCalls' = [providerCalls EXCEPT
            ![p] = Append(@, Exchange(Request(p), e, NoCompletion))]
  /\ pc' = [pc EXCEPT ![p] = "raised"]
  /\ UNCHANGED <<environ, globals, loaded, heap, arg, input, result, turn, locals>>

\* lines 71-74: litellm.completion returns a response drawn from C
ProviderReturns(p, C) ==
  /\ pc[p] = "L71"
  /\ \E c \in C :
       /\ completion' = [completion EXCEPT ![Frame(p)] = c]
       /\ providerCalls' = [providerCalls EXCEPT
            ![p] = Append(@, Exchange(Request(p), "ok", c))]
  /\ pc' = [pc EXCEPT ![p] = "L76"]
  /\ UNCHANGED <<environ, globals, loaded, heap, caller, messages,
                 current_messages, assistant_reply_content, updated_messages>>

\* lines 76-79
Extract(p) ==
  /\ pc[p] = "L76"
  /\ LET c == completion[Frame(p)] IN
       IF ExtractError(c) # "none"
       THEN /\ error' = [error EXCEPT ![p] = ExtractError(c)]
            /\ pc' = [pc EXCEPT ![p] = "raised"]
            /\ UNCHANGED assistant_reply_content
       ELSE /\ assistant_reply_content' =
                 [assistant_reply_content EXCEPT
                    ![Frame(p)] = strip(FirstChoiceContent(c))]
            /\ pc' = [pc EXCEPT ![p] = "L82"]
            /\ UNCHANGED error
  /\ UNCHANGED <<environ, globals, loaded, heap, arg, input, result, turn,
                 providerCalls, messages, current_messages, completion,
                 updated_messages>>

\* lines 81-83
Return(p) ==
  /\ pc[p] = "L82"
  /\ LET r == AppendList(heap, p, current_messages[Frame(p)],
                         AssistantMessage(assistant_reply_content[Frame(p)]))
     IN /\ heap' = r.heap
        /\ updated_messages' = [updated_messages EXCEPT ![Frame(p)] = r.ref]
        /\ result' = [result EXCEPT ![p] = r.ref]
  /\ pc' = [pc EXCEPT ![p] = "returned"]
  /\ UNCHANGED <<environ, globals, loaded, arg, input, error, turn,
                 providerCalls, messages, current_messages, completion,
                 assistant_reply_content>>

\* the caller is done with the call and drops its lists
Finish(p) ==
  /\ pc[p] \in {"returned", "raised"}
  /\ heap' = [a \in {b \in DOMAIN heap : b[1] # p} |-> heap[a]]
  /\ pc' = [pc EXCEPT ![p] = "idle"]
  /\ arg' = [arg EXCEPT ![p] = Null]
  /\ input' = [input EXCEPT ![p] = <<>>]
  /\ result' = [result EXCEPT ![p] = Null]
  /\ error' = [error EXCEPT ![p] = "none"]
  /\ providerCalls' = [providerCalls EXCEPT ![p] = <<>>]
  /\ turn' = [turn EXCEPT ![p] = 0]
  /\ messages' = [messages EXCEPT ![Frame(p)] = Null]
  /\ current_messages' = [current_messages EXCEPT ![Frame(p)] = Null]
  /\ completion' = [completion EXCEPT ![Frame(p)] = NoCompletion]
  /\ assistant_reply_content' = [assistant_reply_content EXCEPT ![Frame(p)] = <<>>]
  /\ updated_messages' = [updated_messages EXCEPT ![Frame(p)] = Null]
  /\ UNCHANGED <<environ, globals, loaded>>

\* the next turn of a conversation: the caller appends one user message to
\* the history it got back and calls again with that list
NextTurn(p) ==
  /\ pc[p] = "returned"
  /\ turn[p] < MaxTurns
  /\ LET a == result[p]
         h == heap[a] \o <<[role |-> "user", content |-> <<"custom">>]>>
     IN /\ heap' = [b \in {a} |-> h] @@
                     [b \in {c \in DOMAIN heap : c[1] # p} |-> heap[b]]
        /\ arg' = [arg EXCEPT ![p] = a]
        /\ input' = [input EXCEPT ![p] = h]
        /\ messages' = [messages EXCEPT ![Frame(p)] = a]
  /\ turn' = [turn EXCEPT ![p] = @ + 1]
  /\ pc' = [pc EXCEPT ![p] = "L66"]
  /\ result' = [result EXCEPT ![p] = Null]
  /\ providerCalls' = [providerCalls EXCEPT ![p] = <<>>]
  /\ current_messages' = [current_messages EXCEPT ![Frame(p)] = Null]
  /\ completion' = [completion EXCEPT ![Frame(p)] = NoCompletion]
  /\ assistant_reply_content' = [assistant_reply_content EXCEPT ![Frame(p)] = <<>>]
  /\ updated_messages' = [updated_messages EXCEPT ![Frame(p)] = Null]
  /\ UNCHANGED <<environ, globals, loaded, error>>

\* the environment variable is set, changed or removed after the import
SetEnv ==
  /\ \E e \in Environs : e # environ /\ environ' = e
  /\ UNCHANGED <<globals, loaded, heap, pc, caller, providerCalls, locals>>

(***************************************************************************)
(* Specifications                                                          *)
(***************************************************************************)
\* one caller, every history and every provider answer, a changing environment
Next ==
  \/ Call(1, Histories)
  \/ Prepare(1)
  \/ ProviderRaises(1)
  \/ ProviderReturns(1, Completions)
  \/ Extract(1)
  \/ Return(1)
  \/ Finish(1)
  \/ SetEnv

Spec == Init /\ [][Next]_vars

\* the three example histories of the specification
ExampleHistories ==
  { <<>>,
    <<[role |-> "user", content |-> <<"custom">>]>>,
    <<[role |-> "system", content |-> <<"custom">>],
      [role |-> "user", content |-> <<"custom">>]>> }

\* a few provider answers: a padded text, a blank text, a plain text, none
ExampleCompletions ==
  { [choices |-> <<Choice(StrContent(<<" ", "ok", "\n">>))>>],
    [choices |-> <<Choice(StrContent(<<" ">>))>>],
    [choices |-> <<Choice(StrContent(<<"ok", " ", "ok">>))>>],
    [choices |-> <<>>] }

\* several callers at once, each with its own history
NextConc ==
  \E p \in Procs :
    \/ Call(p, ExampleHistories)
    \/ Prepare(p)
    \/ ProviderRaises(p)
    \/ ProviderReturns(p, ExampleCompletions)
    \/ Extract(p)
    \/ Return(p)

SpecConc == Init /\ [][NextConc]_vars

\* the histories without any system message
NoSystemHistories ==
  {h \in Histories : \A i \in DOMAIN h : h[i].role # "system"}

\* one caller holding a multi-turn conversation
NextTurns ==
  \/ Call(1, NoSystemHistories)
  \/ Prepare(1)
  \/ ProviderRaises(1)
  \/ ProviderReturns(1, ExampleCompletions)
  \/ Extract(1)
  \/ Return(1)
  \/ NextTurn(1)

SpecTurns == Init /\ [][NextTurns]_vars

(***************************************************************************)
(* Properties                                                              *)
(***************************************************************************)
Returned(p) == pc[p] = "returned"
Out(p) == heap[result[p]]
Front(s) == SubSeq(s, 1, Len(s) - 1)
Last(s) == s[Len(s)]
StartsWithSystem(h) == h # <<>> /\ h[1].role = "system"
FixedSystemMessage == [role |-> "system", content |-> SystemPromptLiteral]

\* t is raw without its leading and trailing whitespace: what lies before
\* and after t in raw is whitespace only, and t neither starts nor ends
\* with whitespace
IsTrimOf(t, raw) ==
  \E i \in 1..(Len(raw) + 1) : \E j \in 0..Len(raw) :
    /\ t = SubSeq(raw, i, j)
    /\ \A k \in 1..(i - 1) : raw[k] \in Whitespace
    /\ \A k \in (j + 1)..Len(raw) : raw[k] \in Whitespace
    /\ t # <<>> => (t[1] \notin Whitespace /\ Last(t) \notin Whitespace)

\* C1: whenever get_agent_response returns, for any input history, the
\* first element of the returned sequence has role "system".
C1_FirstIsSystem ==
  \A p \in Procs : Returned(p) => Out(p) # <<>> /\ Out(p)[1].role = "system"

C1_Witness ==
  \E p \in Procs :
    /\ Returned(p)
    /\ input[p] # <<>> /\ input[p][1].role = "user"
    /\ Out(p)[1].role = "system"

\* C2: for an input that starts with a system message, of any content, no
\* system message is inserted: the returned sequence without its last
\* element is exactly the input, so the caller's system message stays at
\* position 0.
C2_NoDuplicateSystem ==
  \A p \in Procs :
    (Returned(p) /\ StartsWithSystem(input[p])) =>
      /\ Front(Out(p)) = input[p]
      /\ Out(p)[1] = input[p][1]

C2_Witness ==
  \E p \in Procs :
    /\ Returned(p)
    /\ Len(input[p]) = 2
    /\ input[p][1] = [role |-> "system", content |-> <<"custom">>]
    /\ Len(Out(p)) = 3
    /\ Out(p)[1].content = <<"custom">>

\* C3: for an input that is empty or starts with another role than
\* "system", exactly one message is inserted, at position 0, with role
\* "system" and the fixed SYSTEM_PROMPT as content; the input messages
\* follow it unchanged and in order, before the appended reply.
C3_SystemInserted ==
  \A p \in Procs :
    (Returned(p) /\ ~StartsWithSystem(input[p])) =>
      /\ Len(Out(p)) = Len(input[p]) + 2
      /\ Out(p)[1] = FixedSystemMessage
      /\ \A i \in 1..Len(input[p]) : Out(p)[i + 1] = input[p][i]

C3_Witness ==
  \E p \in Procs :
    /\ Returned(p)
    /\ Len(input[p]) = 2
    /\ input[p][1].role = "assistant" /\ input[p][2].role = "system"
    /\ Out(p)[1] = FixedSystemMessage
    /\ Out(p)[3] = input[p][2]

\* C4: the returned length is the input length, plus 1 for the reply, plus
\* 1 exactly when a system message was inserted (input empty or first role
\* not "system").
C4_Length ==
  \A p \in Procs :
    Returned(p) =>
      Len(Out(p)) = Len(input[p]) + 1
                      + (IF StartsWithSystem(input[p]) THEN 0 ELSE 1)

C4_Witness ==
  \E p \in Procs :
    /\ Returned(p)
    /\ StartsWithSystem(input[p])
    /\ Len(input[p]) = 1
    /\ Len(Out(p)) = 2

\* C5: the last element of the returned sequence is an assistant message
\* whose content is the first choice's content without leading and trailing
\* whitespace (empty for an all-whitespace reply), and exactly one message
\* is appended to the sequence that was sent.
C5_TrimmedReply ==
  \A p \in Procs :
    Returned(p) =>
      /\ Len(providerCalls[p]) = 1
      /\ LET x == providerCalls[p][1] IN
           /\ x.outcome = "ok"
           /\ Len(Out(p)) = Len(x.messages) + 1
           /\ Last(Out(p)).role = "assistant"
           /\ IsTrimOf(Last(Out(p)).content,
                       x.response.choices[1].message.content.val)

C5_Witness ==
  \E p \in Procs :
    /\ Returned(p)
    /\ providerCalls[p][1].response.choices =
         << Choice(StrContent(<<"\n", "ok", " ">>)),
            Choice(StrContent(<<"alt">>)) >>
    /\ Last(Out(p)) = [role |-> "assistant", content |-> <<"ok">>]

C5_WitnessBlank ==
  \E p \in Procs :
    /\ Returned(p)
    /\ providerCalls[p][1].response.choices =
         << Choice(StrContent(<<" ", "\n">>)) >>
    /\ Last(Out(p)) = [role |-> "assistant", content |-> <<>>]

\* the provider call failed, or its response has no choices or a first
\* choice whose content is no string
Failed(x) ==
  \/ x.outcome # "ok"
  \/ Len(x.response.choices) = 0
  \/ x.response.choices[1].message.content.type # "str"

\* C6: when the provider call fails or its response is malformed or empty,
\* the invocation ends in an error for the caller: it goes no further than
\* the extraction, returns no history, appends no assistant message, makes
\* no second provider call and uses no fallback reply.
C6_ErrorsPropagate ==
  \A p \in Procs :
    /\ Len(providerCalls[p]) <= 1
    /\ (Len(providerCalls[p]) = 1 /\ Failed(providerCalls[p][1])) =>
         /\ pc[p] \in {"L76", "raised"}
         /\ result[p] = Null
         /\ \A a \in DOMAIN heap :
              a[1] = p => heap[a] \in {input[p], <<FixedSystemMessage>> \o input[p]}
    /\ pc[p] = "raised" =>
         /\ error[p] # "none"
         /\ Len(providerCalls[p]) = 1
         /\ Failed(providerCalls[p][1])

C6_Witness ==
  \E p \in Procs :
    /\ pc[p] = "raised"
    /\ error[p] = "AttributeError"
    /\ providerCalls[p][1].outcome = "ok"
    /\ providerCalls[p][1].response.choices[1].message.content.type = "NoneType"
    /\ result[p] = Null

\* C7: an invocation makes exactly one provider call; its messages are the
\* returned sequence without the final assistant message, and its model is
\* the one read from MODEL_NAME when the module was loaded (default
\* "gpt-4o-mini"), whatever the environment variable is later.
C7_OneCall ==
  \A p \in Procs :
    /\ Len(providerCalls[p]) <= 1
    /\ pc[p] \in {"L76", "L82", "returned", "raised"} =>
         /\ Len(providerCalls[p]) = 1
         /\ providerCalls[p][1].model =
              (IF "MODEL_NAME" \in DOMAIN loaded
               THEN loaded["MODEL_NAME"] ELSE "gpt-4o-mini")
    /\ Returned(p) => providerCalls[p][1].messages = Front(Out(p))

C7_Witness ==
  \E p \in Procs :
    /\ Returned(p)
    /\ loaded = NoEnv
    /\ environ # loaded
    /\ providerCalls[p][1].model = "gpt-4o-mini"
    /\ Len(providerCalls[p][1].messages) = 3

\* what an invocation returns when it runs alone on history h and the
\* provider answers with response c
IsResultAlone(out, h, c) ==
  /\ Front(out) = (IF StartsWithSystem(h) THEN h ELSE <<FixedSystemMessage>> \o h)
  /\ Last(out).role = "assistant"
  /\ IsTrimOf(Last(out).content, c.choices[1].message.content.val)

C8_State ==
  \A p \in Procs :
    Returned(p) =>
      /\ Len(providerCalls[p]) = 1
      /\ IsResultAlone(Out(p), input[p], providerCalls[p][1].response)
      /\ heap[arg[p]] = input[p]

\* C8: under any interleaving of invocations on separate histories, each
\* returns what it would return alone with the same provider reply (its
\* own prefix decision, its own messages, its own reply), and no step
\* writes SYSTEM_PROMPT or MODEL_NAME.
C8_ConcurrentSafe ==
  /\ [] C8_State
  /\ [][globals' = globals]_vars

C8_Witness ==
  /\ Returned(1) /\ Returned(2)
  /\ input[1] = <<>>
  /\ StartsWithSystem(input[2])
  /\ Last(Out(1)).content = <<"ok">>
  /\ Last(Out(2)).content = <<"ok", " ", "ok">>
  /\ Len(Out(1)) = 2 /\ Len(Out(2)) = 3

\* C9: the caller's list is never modified: while the call runs and after
\* it returned or raised, prefixed or not, the list has the elements it had
\* when it was passed, and the returned list is another list object.
C9_InputUntouched ==
  \A p \in Procs :
    /\ arg[p] # Null => heap[arg[p]] = input[p]
    /\ Returned(p) => result[p] # arg[p]

C9_Witness ==
  \E p \in Procs :
    /\ Returned(p)
    /\ current_messages[Frame(p)] = arg[p]
    /\ heap[arg[p]] = input[p]
    /\ result[p] # arg[p]

C9_WitnessRaised ==
  \E p \in Procs :
    /\ pc[p] = "raised"
    /\ current_messages[Frame(p)] = arg[p]
    /\ heap[arg[p]] = input[p]

NumSystem(h) == Cardinality({i \in DOMAIN h : h[i].role = "system"})

\* C10: in a conversation that starts without a system message and goes on
\* by appending one user message to the returned history and calling again,
\* after every successful turn the history has exactly one system message,
\* at position 0 with content SYSTEM_PROMPT, and from the second turn on a
\* call adds exactly one element to what it was passed.
C10_OneSystemPrompt ==
  \A p \in Procs :
    Returned(p) =>
      /\ NumSystem(Out(p)) = 1
      /\ Out(p)[1] = FixedSystemMessage
      /\ turn[p] >= 2 =>
           /\ Len(Out(p)) = Len(input[p]) + 1
           /\ Front(Out(p)) = input[p]

C10_Witness ==
  \E p \in Procs :
    /\ Returned(p)
    /\ turn[p] = 3
    /\ NumSystem(Out(p)) = 1
    /\ Len(Out(p)) = Len(input[p]) + 1

====
